---- MODULE Spec2Model ----
(***************************************************************************)
(* The RV designer chat application: the turn orchestrator of ChatView     *)
(* (handleSubmit, handleSuggestionClick), the session store of             *)
(* useLocalStorage (setValue, sanitizeForStorage) and the blob store of    *)
(* services/db.ts, as one state machine.                                   *)
(*                                                                         *)
(* Values.  A text is a sequence of fragments (the pieces a template       *)
(* literal concatenates), so "the text contains the fault's message" is    *)
(* membership of a fragment.  An absent optional field is a marker value:  *)
(* NoData for ChatMessageImage.data, the empty sequence for text, images   *)
(* and suggestions (no code path of the program tells an absent images     *)
(* array from an empty one).  An id is the triple <<prefix, Date.now(),    *)
(* index>> the template literals of the source build.                      *)
(***************************************************************************)
EXTENDS Integers, Sequences, FiniteSets, TLC

\* Bounds of the model: the turns of one behaviour of Spec and of SpecRace, the
\* files of one submission, the images of one response, the clock's last value.
MaxTurns == 1
MaxRace == 2
MaxFiles == 1
MaxChats == 2
MaxImages == 2
MaxClock == 1
MaxRenders == 2
MaxOpens == 2

VARIABLES
    allChats,      \* App.tsx:13      storedValue of useLocalStorage('rvDesignerChats')
    localStorage,  \* Sidebar.tsx:146 the item under the key, or no item
    activeChatId,  \* App.tsx:14
    dbState,       \* db.ts:6         the IndexedDB handle: "opening", "ready" or "failed"
    blobs,         \* db.ts:4         the records of the 'images' object store
    hasApiKey,     \* GalleryPanel.tsx:193
    apiChecked,    \* GalleryPanel.tsx:197 whether the checkApiKey effect has run
    aistudio,      \* whether window.aistudio exists in this environment
    keySelected,   \* what aistudio.hasSelectedApiKey() answers
    now,           \* Date.now()
    turns,         \* the running and finished invocations of the two handlers
    budget,        \* how many more invocations this behaviour may start
    lastSave,      \* the last call of setValue: its argument and whether setItem threw
    resolver,      \* part_000:5     one mounted useImageLoader: its input, state and fetches
    matrix,        \* DesignMatrix.tsx:39-46 categories, customCategory, selections
    probe          \* what a client of services/db.ts has put and got

vars == <<allChats, localStorage, activeChatId, dbState, blobs, hasApiKey,
          apiChecked, aistudio, keySelected, now, turns, budget, lastSave,
          resolver, matrix, probe>>

\* The chat view's state, and the state of the components beside it.
viewVars == <<resolver, matrix, probe>>

----------------------------------------------------------------------------
\* types.ts

NoData == "absent"
PngMime == "image/png"
UploadBytes == "base64:upload"
GeneratedBytes == "base64:generated"

Image(id, data, type, mimeType) ==
    [id |-> id, data |-> data, type |-> type, mimeType |-> mimeType]

Message(id, role, text, images, isLoading, suggestions) ==
    [id |-> id, role |-> role, text |-> text, images |-> images,
     isLoading |-> isLoading, suggestions |-> suggestions]

NoMessage == Message(<<"none", 0, 0>>, "none", <<>>, <<>>, FALSE, <<>>)
NoImage == Image(<<"none", 0, 0>>, NoData, "none", "none")

ChatSession(id, title, messages, createdAt) ==
    [id |-> id, title |-> title, messages |-> messages, createdAt |-> createdAt]

Range(s) == {s[k] : k \in DOMAIN s}

\* Array.prototype.some / find / reverse().find over a sequence.
Some(s, P(_)) == \E k \in DOMAIN s : P(s[k])

FindIndex(s, P(_)) ==
    IF Some(s, P) THEN CHOOSE k \in DOMAIN s : P(s[k]) /\ \A j \in 1..(k - 1) : ~P(s[j])
    ELSE 0

FindLastIndex(s, P(_)) ==
    IF Some(s, P) THEN CHOOSE k \in DOMAIN s : P(s[k]) /\ \A j \in (k + 1)..Len(s) : ~P(s[j])
    ELSE 0

\* A truthy data field.
HasData(i) == i.data # NoData
IsGenerated(i) == i.type = "generated"
IsModel(m) == m.role = "model"

----------------------------------------------------------------------------
\* services/db.ts

StoredImage(id, mimeType, data) == [id |-> id, mimeType |-> mimeType, data |-> data]

\* saveImage rejects when the handle is null, otherwise store.put upserts by id.
saveImageRejects(state) == state # "ready"

saveImageLoses(store, image) == store

saveImageKeepsFirst(store, image) ==
    IF \E r \in store : r.id = image.id THEN store ELSE store \cup {image}

saveImage(store, image) ==
    {r \in store : r.id # image.id} \cup {image}

\* getImage rejects when the handle is null, otherwise store.get answers the
\* record under the id, or undefined.
NoStored == StoredImage(<<"none", 0, 0>>, "none", NoData)

getImageRejects(state) == state # "ready"

getImage(store, id) ==
    IF \E r \in store : r.id = id THEN CHOOSE r \in store : r.id = id ELSE NoStored

----------------------------------------------------------------------------
\* components/Sidebar.tsx: useLocalStorage

StorageKey == "rvDesignerChats"
NoItem == [present |-> FALSE, value |-> <<>>]
Item(v) == [present |-> TRUE, value |-> v]

\* JSON.parse(JSON.stringify(value)): a fresh structure holding every defined
\* field of every session, message and image.
JsonImage(i) == Image(i.id, i.data, i.type, i.mimeType)

JsonMessage(m) ==
    Message(m.id, m.role, m.text, [k \in DOMAIN m.images |-> JsonImage(m.images[k])],
            m.isLoading, m.suggestions)

JsonChat(c) ==
    ChatSession(c.id, c.title, [k \in DOMAIN c.messages |-> JsonMessage(c.messages[k])],
                c.createdAt)

JsonCopy(value) == [k \in DOMAIN value |-> JsonChat(value[k])]

\* delete image.data
DeleteData(i) == [i EXCEPT !.data = NoData]

StripMessage(m) == [m EXCEPT !.images = [k \in DOMAIN m.images |-> DeleteData(m.images[k])]]

StripChat(c) == [c EXCEPT !.messages = [k \in DOMAIN c.messages |-> StripMessage(c.messages[k])]]

\* sanitizeForStorage returns the value to write; `value` is what the caller's
\* object holds once the function has returned.
sanitizeKeepsData(key, value) == [copy |-> value, value |-> value]

sanitizeInPlace(key, value) ==
    LET stripped == [k \in DOMAIN value |-> StripChat(value[k])]
    IN  IF key # StorageKey THEN [copy |-> value, value |-> value]
        ELSE [copy |-> stripped, value |-> stripped]

sanitizeForStorage(key, value) ==
    IF key # StorageKey THEN [copy |-> value, value |-> value]
    ELSE LET copy == JsonCopy(value)
         IN  [copy |-> [k \in DOMAIN copy |-> StripChat(copy[k])], value |-> value]

\* setValue(valueToStore): the state is set, then the sanitized copy is written;
\* setItem may throw (quota), which is caught and logged.
setValue(valueToStore, setItemThrows) ==
    LET s == sanitizeForStorage(StorageKey, valueToStore)
    IN  /\ allChats' = s.value
        /\ localStorage' = IF setItemThrows THEN localStorage ELSE Item(JsonCopy(s.copy))
        /\ lastSave' = [saved |-> TRUE, arg |-> valueToStore, threw |-> setItemThrows]

----------------------------------------------------------------------------
\* services/geminiService.ts

\* A thrown value: an Error with a message, or a bare string (a rejection of
\* services/db.ts).
Thrown(isError, message) == [isError |-> isError, message |-> message]
NoThrow == Thrown(FALSE, "")

NoImageGenerated == "No image was generated. The model may have refused the prompt."
NetworkFault == "fetch failed"
CredentialFault == "404 Requested entity was not found."
DbNotInitialized == "DB not initialized"

\* error.message.includes("Requested entity was not found")
IncludesEntityNotFound(message) == message = CredentialFault

GeneratedPrefix == "Generated image based on: "
UpdatedPrefix == "Image updated based on your request: "
ModelSaid == "model text part"

\* What the remote model answers to generateContent: a fault, or the parts of
\* the first candidate (n inlineData parts, and a text part or none).
RemoteFaults == {Thrown(TRUE, NetworkFault), Thrown(TRUE, CredentialFault)}

GenReplies ==
    [fault : RemoteFaults, n : {0}, text : {<<>>}]
    \cup [fault : {NoThrow}, n : {0}, text : {<<>>, <<ModelSaid>>}]
    \cup [fault : {NoThrow}, n : 1..MaxImages, text : {<<>>}]

\* message.images.push({id: `img_${Date.now()}_${message.images.length}`, ...})
PushedImages(n, t) ==
    [k \in 1..n |-> Image(<<"img", t, k - 1>>, GeneratedBytes, "generated", PngMime)]

Returned(message) == [threw |-> FALSE, error |-> NoThrow, message |-> message]
Threw(error) == [threw |-> TRUE, error |-> error, message |-> NoMessage]

\* generateImageWithPrompt: message.text is set before the parts are read, so a
\* text part never replaces it; no image is an Error.
generateImageWithPrompt(prompt, reply, t) ==
    IF reply.fault # NoThrow THEN Threw(reply.fault)
    ELSE IF reply.n = 0 THEN Threw(Thrown(TRUE, NoImageGenerated))
    ELSE Returned(Message(<<"model", t, 0>>, "model", <<GeneratedPrefix>> \o prompt,
                          PushedImages(reply.n, t), FALSE, <<>>))

\* generateWithNanoBanana: the text parts are appended; an empty text gets the
\* default summary; no minimum number of images.
generateWithNanoBanana(prompt, images, reply, t) ==
    IF reply.fault # NoThrow THEN Threw(reply.fault)
    ELSE Returned(Message(<<"model", t, 0>>, "model",
                          IF reply.text = <<>> THEN <<UpdatedPrefix>> \o prompt ELSE reply.text,
                          PushedImages(reply.n, t), FALSE, <<>>))

FallbackSuggestions ==
    <<"Change the color to matte black", "Add larger windows",
      "Make it more luxurious inside", "Add a solar panel array">>

RemoteSuggestions == <<"s1", "s2", "s3", "s4", "s5">>

\* What the suggestion model answers: a fault, JSON that is no array, or an array.
SuggestReplies ==
    {[kind |-> "fault", items |-> <<>>], [kind |-> "object", items |-> <<>>],
     [kind |-> "array", items |-> RemoteSuggestions]}

Slice(s, n) == SubSeq(s, 1, IF Len(s) < n THEN Len(s) ELSE n)

fetchSuggestedEditsNoFallback(chatHistory, image, reply) ==
    IF reply.kind = "array" THEN Slice(reply.items, 4) ELSE <<>>

fetchSuggestedEdits(chatHistory, image, reply) ==
    IF reply.kind = "fault" THEN FallbackSuggestions
    ELSE IF reply.kind = "array" THEN Slice(reply.items, 4)
    ELSE <<>>

----------------------------------------------------------------------------
\* App.tsx

NoChatId == <<"none", 0, 0>>

\* allChats.find(chat => chat.id === activeChatId) || null
HasChat(chats, id) == \E k \in DOMAIN chats : chats[k].id = id

MessagesOf(chats, id) ==
    LET P(c) == c.id = id
    IN  IF HasChat(chats, id) THEN chats[FindIndex(chats, P)].messages ELSE <<>>

\* updateActiveChatMessages: prev.map(chat => chat.id === activeChatId ? {...chat, messages} : chat)
updateActiveChatMessages(prev, id, messages) ==
    IF id = NoChatId THEN prev
    ELSE [k \in DOMAIN prev |->
            IF prev[k].id = id THEN [prev[k] EXCEPT !.messages = messages] ELSE prev[k]]

----------------------------------------------------------------------------
\* components/GalleryPanel.tsx: ChatView

SorryPrefix == "Sorry, I encountered an error. Please try again. Details: "
InvalidKeyText ==
    "The selected Google Cloud Project or API Key seems invalid or expired. Please select a valid project to continue."
ReuploadText ==
    "Sorry, I can't edit images from previous sessions as they are not stored locally. Please upload the image again to make edits, or describe a new design."
MatrixPrompt == "Update the design with the following changes: wheels changed to 'chrome rims'."

\* What the user types; trim() of it.
Inputs == {"", "   ", "red stripe"}
Prompts == {"", MatrixPrompt}
Trim(s) == IF s = "   " THEN "" ELSE s

\* (prompt || input).trim(), as the fragments of a text
TextToSend(prompt, input) ==
    LET t == Trim(IF prompt # "" THEN prompt ELSE input)
    IN  IF t = "" THEN <<>> ELSE <<t>>

HasGenerated(m) == Some(m.images, IsGenerated)
HasGeneratedData(m) == \E k \in DOMAIN m.images : IsGenerated(m.images[k]) /\ HasData(m.images[k])
HasImageData(m) == Some(m.images, HasData)
ModelWithGenerated(m) == IsModel(m) /\ HasGenerated(m)
ModelWithData(m) == IsModel(m) /\ HasImageData(m)

\* lines 255-257
lastModelMessage(messages) ==
    IF Some(messages, IsModel) THEN messages[FindLastIndex(messages, IsModel)] ELSE NoMessage

wasLastMessageAnImage(messages) == HasGenerated(lastModelMessage(messages))

isLastImageNeverMissing(messages) == FALSE

isLastImageMissingData(messages) ==
    wasLastMessageAnImage(messages) /\ ~HasGeneratedData(lastModelMessage(messages))

\* lines 284-287 (and handleOpenMatrix, lines 461-465)
lastGeneratedImage(messages) ==
    IF Some(messages, ModelWithGenerated)
    THEN LET m == messages[FindLastIndex(messages, ModelWithGenerated)]
         IN  m.images[FindIndex(m.images, IsGenerated)]
    ELSE NoImage

lastImageWithDataOrWithout(messages) ==
    IF Some(messages, ModelWithGenerated)
    THEN LET m == messages[FindLastIndex(messages, ModelWithGenerated)]
         IN  m.images[FindIndex(m.images, IsGenerated)]
    ELSE NoImage

\* lines 360-365
lastImageWithData(messages) ==
    IF Some(messages, ModelWithData)
    THEN LET m == messages[FindLastIndex(messages, ModelWithData)]
         IN  m.images[FindIndex(m.images, HasData)]
    ELSE NoImage

\* lines 446-449
isLastImageEditable(messages) ==
    Len(messages) > 0 /\ ModelWithGenerated(messages[Len(messages)])

ApiImage(i) == [data |-> i.data, mimeType |-> i.mimeType]
ApiImages(images) == [k \in DOMAIN images |-> ApiImage(images[k])]

Call(fn, prompt, images) == [fn |-> fn, prompt |-> prompt, images |-> images]
NoCall == Call("none", <<>>, <<>>)

ChooseCallUploadsFirst(messages, textToSend, userMessageImages) ==
    LET base == lastGeneratedImage(messages)
        uploadedImagesData == ApiImages(userMessageImages)
    IN  IF Len(uploadedImagesData) > 0 THEN Call("edit", textToSend, uploadedImagesData)
        ELSE IF base # NoImage THEN Call("edit", textToSend, <<ApiImage(base)>>)
        ELSE Call("generate", textToSend, <<>>)

\* lines 289-306: which capability the turn calls, and with what
ChooseCall(messages, textToSend, userMessageImages) ==
    LET base == lastGeneratedImage(messages)
        uploadedImagesData == ApiImages(userMessageImages)
    IN  IF base # NoImage THEN Call("edit", textToSend, <<ApiImage(base)>> \o uploadedImagesData)
        ELSE IF Len(uploadedImagesData) > 0 THEN Call("edit", textToSend, uploadedImagesData)
        ELSE Call("generate", textToSend, <<>>)

\* lines 334-341
IsCredentialFault(error) == error.isError /\ IncludesEntityNotFound(error.message)

errorTextNoDetails(error) ==
    IF IsCredentialFault(error) THEN <<InvalidKeyText>> ELSE <<SorryPrefix>>

errorText(error) ==
    IF IsCredentialFault(error) THEN <<InvalidKeyText>> ELSE <<SorryPrefix, error.message>>

UserMessage(t, text, images) == Message(<<"user", t, 0>>, "user", text, images, FALSE, <<>>)
LoadingMessage(t) == Message(<<"model_loading", t, 0>>, "model", <<>>, <<>>, TRUE, <<>>)
AlertMessage(t) == Message(<<"error", t, 0>>, "model", <<ReuploadText>>, <<>>, FALSE, <<>>)
ErrorMessage(t, error) == Message(<<"error", t, 0>>, "model", errorText(error), <<>>, FALSE, <<>>)

----------------------------------------------------------------------------
\* One invocation of handleSubmit or handleSuggestionClick: the values its
\* closure holds (the render's allChats and activeChatId, hence
\* chatSession.messages), its locals, where it is suspended (pc), and a record
\* of what it did (placeholder, call, nCalls, log, outcome, final, after).

IdleTurn ==
    [pc |-> "idle", kind |-> "none", chats0 |-> <<>>, chatId |-> NoChatId,
     text |-> <<>>, nFiles |-> 0, uploads |-> <<>>, userMessage |-> NoMessage,
     placeholder |-> FALSE, call |-> NoCall, nCalls |-> 0, response |-> NoMessage,
     saved |-> 0, error |-> NoThrow, suggested |-> "none", log |-> <<>>,
     outcome |-> "none",
     final |-> NoMessage, after |-> <<>>]

Turns == 1..(IF MaxTurns > MaxRace THEN MaxTurns ELSE MaxRace)

FreeSlot(i) ==
    /\ budget > 0
    /\ turns[i].pc = "idle"
    /\ \A j \in 1..(i - 1) : turns[j].pc # "idle"

\* chatSession.messages of the closure
Messages0(turn) == MessagesOf(turn.chats0, turn.chatId)

\* setMessages as it would be if it read the session list and the active id
\* at the time of the call
setMessagesOfActive(turn, messages, setItemThrows) ==
    setValue(updateActiveChatMessages(allChats, activeChatId, messages), setItemThrows)

\* setMessages(messages) of the closure: updateActiveChatMessages, then setValue
\* applied to the render's storedValue
setMessages(turn, messages, setItemThrows) ==
    setValue(updateActiveChatMessages(turn.chats0, turn.chatId, messages), setItemThrows)

IssueCallTwice(turn, call) == [turn EXCEPT !.call = call, !.nCalls = @ + 2]

\* the one call of generateWithNanoBanana or generateImageWithPrompt
IssueCall(turn, call) == [turn EXCEPT !.call = call, !.nCalls = @ + 1]

Finish(i, turn, outcome, final, t, setItemThrows) ==
    /\ setMessages(turn, Messages0(turn) \o <<turn.userMessage, final>>, setItemThrows)
    /\ turns' = [turns EXCEPT ![i] =
                    [turn EXCEPT !.pc = "done", !.outcome = outcome, !.final = final,
                                 !.log = Append(@, "replace"),
                                 !.after = MessagesOf(allChats', turn.chatId)]]

\* lines 229-234 and 354-358: the credential gate.  selects: whether the user
\* picks a key in the dialog openSelectKey shows.
Gate(selects) ==
    IF hasApiKey THEN [pass |-> TRUE, has |-> TRUE, key |-> keySelected]
    ELSE IF aistudio
         THEN [pass |-> keySelected \/ selects, has |-> TRUE, key |-> keySelected \/ selects]
         ELSE [pass |-> FALSE, has |-> FALSE, key |-> keySelected]

\* lines 248-306: the user message, the missing-data guard, the placeholder and
\* the remote call
Compose(i, turn, t, setItemThrows) ==
    LET messages == Messages0(turn)
        userMessage == UserMessage(t, turn.text, turn.uploads)
        composed == [turn EXCEPT !.userMessage = userMessage]
    IN  IF turn.nFiles = 0 /\ turn.text # <<>> /\ isLastImageMissingData(messages)
        THEN /\ setMessages(turn, messages \o <<userMessage, AlertMessage(t)>>, setItemThrows)
             /\ turns' = [turns EXCEPT ![i] =
                            [composed EXCEPT !.pc = "done", !.outcome = "alert",
                                             !.final = AlertMessage(t),
                                             !.after = MessagesOf(allChats', turn.chatId)]]
        ELSE /\ setMessages(turn, messages \o <<userMessage, LoadingMessage(t)>>, setItemThrows)
             /\ turns' = [turns EXCEPT ![i] =
                            IssueCall([composed EXCEPT !.pc = "gen", !.placeholder = TRUE],
                                      ChooseCall(messages, turn.text, turn.uploads))]

\* handleOpenMatrix needs a generated image, and the matrix offers categories
\* only once the resolver has that image's data (DesignMatrix.tsx:59)
MatrixCanGenerate(messages) ==
    LET img == lastGeneratedImage(messages)
    IN  /\ img # NoImage
        /\ HasData(img) \/ (dbState = "ready" /\ \E r \in blobs : r.id = img.id)

\* handleSubmit(prompt), up to its first suspension.  Without a prompt it is
\* reached from the composer, which is rendered only with hasApiKey (lines 521, 542).
handleSubmit(input, nFiles, prompt, selects, t, setItemThrows) ==
    /\ HasChat(allChats, activeChatId)
    /\ IF prompt = "" THEN hasApiKey ELSE MatrixCanGenerate(MessagesOf(allChats, activeChatId))
    /\ \E i \in Turns :
        /\ FreeSlot(i)
        /\ LET g == Gate(selects)
               text == TextToSend(prompt, input)
               turn == [IdleTurn EXCEPT !.kind = "submit", !.chats0 = allChats,
                                        !.chatId = activeChatId, !.text = text,
                                        !.nFiles = nFiles]
           IN  /\ hasApiKey' = g.has
               /\ keySelected' = g.key
               /\ IF ~g.pass \/ (text = <<>> /\ nFiles = 0)
                  THEN UNCHANGED <<allChats, localStorage, lastSave, turns, now, budget>>
                  ELSE /\ budget' = budget - 1
                       /\ IF nFiles > 0
                          THEN /\ turns' = [turns EXCEPT ![i] = [turn EXCEPT !.pc = "upload"]]
                               /\ UNCHANGED <<allChats, localStorage, lastSave, now>>
                          ELSE /\ now' = t
                               /\ Compose(i, turn, t, setItemThrows)
    /\ UNCHANGED <<activeChatId, dbState, blobs, apiChecked, aistudio>>

\* lines 240-246: one file read, given its id and saved.  A rejection of
\* saveImage here is outside the try: the handler ends, nothing is appended.
UploadStep(i, t, setItemThrows) ==
    LET turn == turns[i]
        id == <<"upload", t, Len(turn.uploads)>>
        newImage == Image(id, UploadBytes, "uploaded", PngMime)
        pushed == [turn EXCEPT !.uploads = Append(@, newImage)]
    IN  /\ turn.pc = "upload"
        /\ now' = t
        /\ IF saveImageRejects(dbState)
           THEN /\ turns' = [turns EXCEPT ![i] = [pushed EXCEPT !.pc = "done", !.outcome = "aborted"]]
                /\ UNCHANGED <<allChats, localStorage, lastSave, blobs>>
           ELSE /\ blobs' = saveImage(blobs, StoredImage(id, PngMime, UploadBytes))
                /\ IF Len(pushed.uploads) = turn.nFiles
                   THEN Compose(i, pushed, t, setItemThrows)
                   ELSE /\ turns' = [turns EXCEPT ![i] = pushed]
                        /\ UNCHANGED <<allChats, localStorage, lastSave>>
        /\ UNCHANGED <<activeChatId, dbState, hasApiKey, apiChecked, aistudio, keySelected,
                       budget>>


\* lines 331-349 and 412-428: the catch block.  A credential fault unsets the
\* key and awaits connectApiKey, which suspends only where window.aistudio exists.
CatchWithoutConnect(i, turn, error, t, setItemThrows) ==
    /\ hasApiKey' = (hasApiKey /\ ~IsCredentialFault(error))
    /\ Finish(i, [turn EXCEPT !.error = error], "error", ErrorMessage(t, error), t, setItemThrows)

\* The log gets "unset" for setHasApiKey(false) and "connect" for the call of
\* connectApiKey, and ReconnectDone adds "selected" when its dialog has closed.
Catch(i, turn, error, t, setItemThrows) ==
    LET failed == [turn EXCEPT !.error = error,
                               !.log = IF IsCredentialFault(error)
                                       THEN @ \o <<"unset", "connect">> ELSE @]
    IN  IF IsCredentialFault(error) /\ aistudio
        THEN /\ hasApiKey' = FALSE
             /\ turns' = [turns EXCEPT ![i] = [failed EXCEPT !.pc = "reconnect"]]
             /\ UNCHANGED <<allChats, localStorage, lastSave>>
        ELSE /\ hasApiKey' = (hasApiKey /\ ~IsCredentialFault(error))
             /\ Finish(i, failed, "error", ErrorMessage(t, error), t, setItemThrows)

\* lines 316-328 and 399-409: the suggestion request that follows the persist
\* loop.  handleSubmit always asks; handleSuggestionClick asks only when the
\* response carries an image, and otherwise replaces the placeholder at once.
AfterPersist(i, turn, t, setItemThrows) ==
    IF turn.kind = "submit" \/ Len(turn.response.images) > 0
    THEN /\ turns' = [turns EXCEPT ![i] = [turn EXCEPT !.pc = "suggest", !.log = Append(@, "suggest")]]
         /\ UNCHANGED <<allChats, localStorage, lastSave>>
    ELSE Finish(i, turn, "response", turn.response, t, setItemThrows)

\* lines 298-306 and 387: the remote call settles
GenReturn(i, reply, t, setItemThrows) ==
    LET turn == turns[i]
        r == IF turn.call.fn = "generate"
             THEN generateImageWithPrompt(turn.call.prompt, reply, t)
             ELSE generateWithNanoBanana(turn.call.prompt, turn.call.images, reply, t)
        got == [turn EXCEPT !.response = r.message]
    IN  /\ turn.pc = "gen"
        /\ now' = t
        /\ IF r.threw THEN Catch(i, turn, r.error, t, setItemThrows)
           ELSE /\ UNCHANGED hasApiKey
                /\ IF Len(r.message.images) > 0
                   THEN /\ turns' = [turns EXCEPT ![i] = [got EXCEPT !.pc = "persist"]]
                        /\ UNCHANGED <<allChats, localStorage, lastSave>>
                   ELSE AfterPersist(i, got, t, setItemThrows)
        /\ UNCHANGED <<activeChatId, dbState, blobs, apiChecked, aistudio, keySelected,
                       budget>>

\* lines 308-314 and 389-395: one returned image saved; a rejection is thrown
\* inside the try
PersistStep(i, t, setItemThrows) ==
    LET turn == turns[i]
        image == turn.response.images[turn.saved + 1]
        stored == [turn EXCEPT !.saved = @ + 1, !.log = Append(@, "persist")]
    IN  /\ turn.pc = "persist"
        /\ IF saveImageRejects(dbState)
           THEN /\ Catch(i, turn, Thrown(FALSE, DbNotInitialized), t, setItemThrows)
                /\ now' = t
                /\ UNCHANGED blobs
           ELSE /\ blobs' = saveImage(blobs, StoredImage(image.id, image.mimeType, image.data))
                /\ UNCHANGED <<hasApiKey, now>>
                /\ IF stored.saved = Len(turn.response.images)
                   THEN AfterPersist(i, stored, t, setItemThrows)
                   ELSE /\ turns' = [turns EXCEPT ![i] = stored]
                        /\ UNCHANGED <<allChats, localStorage, lastSave>>
        /\ UNCHANGED <<activeChatId, dbState, apiChecked, aistudio, keySelected, budget>>

\* lines 319-330 and 402-411: the suggestions arrive and the placeholder is replaced
SuggestReturn(i, reply, t, setItemThrows) ==
    LET turn == turns[i]
        updatedHistory == Messages0(turn) \o <<turn.userMessage>>
        image == IF Len(turn.response.images) > 0 THEN turn.response.images[1] ELSE NoImage
        responseMessage ==
            [turn.response EXCEPT !.suggestions = fetchSuggestedEdits(updatedHistory, image, reply)]
    IN  /\ turn.pc = "suggest"
        /\ UNCHANGED now
        /\ Finish(i, [turn EXCEPT !.suggested = reply.kind], "response", responseMessage, t,
                  setItemThrows)
        /\ UNCHANGED <<activeChatId, dbState, blobs, hasApiKey, apiChecked, aistudio,
                       keySelected, budget>>

\* lines 340-348: the dialog of connectApiKey closes, the error message is written
ReconnectDone(i, selects, t, setItemThrows) ==
    LET turn == turns[i]
    IN  /\ turn.pc = "reconnect"
        /\ now' = t
        /\ hasApiKey' = TRUE
        /\ keySelected' = (keySelected \/ selects)
        /\ Finish(i, [turn EXCEPT !.log = Append(@, "selected")], "error",
                  ErrorMessage(t, turn.error), t, setItemThrows)
        /\ UNCHANGED <<activeChatId, dbState, blobs, apiChecked, aistudio, budget>>

\* handleSuggestionClick(suggestion), lines 352-387: offered under the last
\* message when it is a model message with a generated image (line 492).  A
\* click that finds no image with data returns at once (lines 364-366, 429);
\* it is recorded as a turn that ended with outcome "noop".
handleSuggestionClick(suggestion, selects, t, setItemThrows) ==
    LET messages == MessagesOf(allChats, activeChatId)
        lastImage == lastImageWithData(messages)
    IN  /\ HasChat(allChats, activeChatId)
        /\ isLastImageEditable(messages)
        /\ Len(messages[Len(messages)].suggestions) > 0
        /\ suggestion = messages[Len(messages)].suggestions[1]
        /\ \E i \in Turns :
            /\ FreeSlot(i)
            /\ LET g == Gate(selects)
                   userMessage == UserMessage(t, <<suggestion>>, <<>>)
                   turn == [IdleTurn EXCEPT !.kind = "click", !.chats0 = allChats,
                                            !.chatId = activeChatId, !.text = <<suggestion>>,
                                            !.userMessage = userMessage]
               IN  /\ hasApiKey' = g.has
                   /\ keySelected' = g.key
                   /\ IF ~g.pass
                      THEN UNCHANGED <<allChats, localStorage, lastSave, turns, now, budget>>
                      ELSE IF lastImage = NoImage
                      THEN /\ budget' = budget - 1
                           /\ UNCHANGED <<allChats, localStorage, lastSave, now>>
                           /\ turns' = [turns EXCEPT ![i] =
                                  [turn EXCEPT !.pc = "done", !.outcome = "noop",
                                               !.userMessage = NoMessage,
                                               !.after = MessagesOf(allChats', activeChatId)]]
                      ELSE /\ now' = t
                           /\ budget' = budget - 1
                           /\ setMessages(turn, messages \o <<userMessage, LoadingMessage(t)>>,
                                          setItemThrows)
                           /\ turns' = [turns EXCEPT ![i] =
                                  IssueCall([turn EXCEPT !.pc = "gen", !.placeholder = TRUE],
                                            Call("edit", <<suggestion>>, <<ApiImage(lastImage)>>))]
        /\ UNCHANGED <<activeChatId, dbState, blobs, apiChecked, aistudio>>

\* App.tsx:29-35 and db.ts:14-40: the database opens.  An open that fails
\* leaves the handle null, as one that has not finished does.
initDB ==
    /\ dbState = "opening"
    /\ dbState' = "ready"
    /\ UNCHANGED <<allChats, localStorage, activeChatId, blobs, hasApiKey, apiChecked,
                   aistudio, keySelected, now, turns, budget, lastSave>>

\* lines 197-207: the mount effect of ChatView
checkApiKey ==
    /\ ~apiChecked
    /\ apiChecked' = TRUE
    /\ hasApiKey' = IF aistudio THEN keySelected ELSE TRUE
    /\ UNCHANGED <<allChats, localStorage, activeChatId, dbState, blobs, aistudio,
                   keySelected, now, turns, budget, lastSave>>

----------------------------------------------------------------------------
\* The sessions a behaviour starts with.  A stored history is what an earlier
\* run left in localStorage (payloads stripped, images in the blob store); a
\* live history is what this run has built so far (payloads in memory).

\* The components a specification does not exercise: no image resolver is
\* mounted, the design matrix is closed, nothing has called services/db.ts.
Unmounted ==
    [image |-> NoImage, loadedImage |-> NoImage, isLoading |-> FALSE, effectDue |-> FALSE,
     fetches |-> <<>>, renders |-> 0, gets |-> 0, settled |-> "none", stored |-> NoStored,
     discarded |-> 0]

NoToggle == [n |-> 0, categoryKey |-> "", option |-> "", before |-> <<>>]

NoCustomCategory == [name |-> "", options |-> <<>>, isLoading |-> FALSE, error |-> ""]

ClosedMatrix ==
    [isOpen |-> FALSE, categories |-> <<>>, customCategory |-> NoCustomCategory,
     selections |-> <<>>, isMatrixLoading |-> FALSE, matrixError |-> "",
     submitted |-> <<>>, clicked |-> FALSE, opens |-> 0, toggle |-> NoToggle,
     fetches |-> 0, optionFetches |-> <<>>, customFor |-> ""]

NoGot == [id |-> <<"none", 0, 0>>, outcome |-> "none", value |-> NoStored]
NoProbe == [puts |-> {}, overwrote |-> {}, got |-> NoGot]

ChatId == <<"chat", -4, 0>>
NewTitle == "New RV Design"
Typed == <<"red stripe">>

LiveTurn ==
    <<UserMessage(-3, Typed, <<>>),
      [generateImageWithPrompt(Typed, [fault |-> NoThrow, n |-> 1, text |-> <<>>], -2).message
         EXCEPT !.suggestions = Slice(RemoteSuggestions, 4)]>>

FailedTurn == <<UserMessage(-1, Typed, <<>>), ErrorMessage(-1, Thrown(TRUE, NetworkFault))>>

OldTurn == [k \in DOMAIN LiveTurn |-> StripMessage(LiveTurn[k])]

StoredHistories == {<<>>, OldTurn, OldTurn \o <<UserMessage(-1, Typed, <<>>), AlertMessage(-1)>>}
LiveHistories == {LiveTurn, LiveTurn \o FailedTurn}

Start(histories, n) ==
    /\ aistudio \in BOOLEAN
    /\ keySelected \in (IF aistudio THEN BOOLEAN ELSE {FALSE})
    /\ \E h \in histories :
        /\ allChats = <<ChatSession(ChatId, NewTitle, h, -4)>>
        /\ blobs = {StoredImage(m.images[1].id, m.images[1].mimeType, GeneratedBytes) :
                        m \in {x \in Range(h) : Len(x.images) > 0}}
        /\ IF h \in LiveHistories
           THEN /\ dbState = "ready"
                /\ apiChecked = TRUE
                /\ hasApiKey = TRUE
                /\ keySelected = aistudio
           ELSE /\ dbState = "opening"
                /\ apiChecked = FALSE
                /\ hasApiKey = FALSE
    /\ localStorage = Item(JsonCopy(sanitizeForStorage(StorageKey, allChats).copy))
    /\ activeChatId = ChatId
    /\ now = 0
    /\ turns = [i \in Turns |-> IdleTurn]
    /\ budget = n
    /\ lastSave = [saved |-> FALSE, arg |-> <<>>, threw |-> FALSE]
    /\ resolver = Unmounted
    /\ matrix = ClosedMatrix
    /\ probe = NoProbe

Init == Start(StoredHistories \cup LiveHistories, MaxTurns)

Clock == now..MaxClock

\* In Spec every write of localStorage succeeds; SpecStore has the writes that throw.
Next ==
    \/ initDB /\ UNCHANGED viewVars
    \/ checkApiKey /\ UNCHANGED viewVars
    \/ \E input \in Inputs, nFiles \in 0..MaxFiles, prompt \in Prompts,
          selects \in BOOLEAN, t \in Clock :
            handleSubmit(input, nFiles, prompt, selects, t, FALSE) /\ UNCHANGED viewVars
    \/ \E suggestion \in Range(FallbackSuggestions) \cup Range(RemoteSuggestions),
          selects \in BOOLEAN, t \in Clock :
            handleSuggestionClick(suggestion, selects, t, FALSE) /\ UNCHANGED viewVars
    \/ \E i \in Turns, t \in Clock : UploadStep(i, t, FALSE) /\ UNCHANGED viewVars
    \/ \E i \in Turns, reply \in GenReplies, t \in Clock :
            GenReturn(i, reply, t, FALSE) /\ UNCHANGED viewVars
    \/ \E i \in Turns, t \in Clock : PersistStep(i, t, FALSE) /\ UNCHANGED viewVars
    \/ \E i \in Turns, reply \in SuggestReplies :
            SuggestReturn(i, reply, now, FALSE) /\ UNCHANGED viewVars
    \/ \E i \in Turns, selects \in BOOLEAN, t \in Clock :
            ReconnectDone(i, selects, t, FALSE) /\ UNCHANGED viewVars

Spec == Init /\ [][Next]_vars

----------------------------------------------------------------------------
\* SpecRace: submissions that overlap in one live session.  A second
\* submission is accepted while the first one's call is in flight.

InitRace == Start({LiveTurn}, MaxRace)

RaceReplies == {r \in GenReplies : r.fault = Thrown(TRUE, NetworkFault) \/ r.n = 1}

NextRace ==
    \/ \E t \in Clock : handleSubmit("red stripe", 0, "", FALSE, t, FALSE) /\ UNCHANGED viewVars
    \/ \E i \in Turns, reply \in RaceReplies, t \in Clock :
            GenReturn(i, reply, t, FALSE) /\ UNCHANGED viewVars
    \/ \E i \in Turns, t \in Clock : PersistStep(i, t, FALSE) /\ UNCHANGED viewVars
    \/ \E i \in Turns, reply \in SuggestReplies :
            SuggestReturn(i, reply, now, FALSE) /\ UNCHANGED viewVars

SpecRace == InitRace /\ [][NextRace]_vars

----------------------------------------------------------------------------
\* SpecStore: the session store alone.  Every update of the session list goes
\* through setValue, whose setItem may throw; another tab's write arrives as a
\* storage event.

\* App.tsx:37-46
createNewChat(t, setItemThrows) ==
    LET newChat == ChatSession(<<"chat", t, 0>>, NewTitle, <<>>, t)
    IN  /\ Len(allChats) < MaxChats
        /\ now' = t
        /\ setValue(<<newChat>> \o allChats, setItemThrows)
        /\ activeChatId' = newChat.id
        /\ UNCHANGED <<dbState, blobs, hasApiKey, apiChecked, aistudio, keySelected, turns,
                       budget>>

\* App.tsx:48-50
selectChat(id) ==
    /\ HasChat(allChats, id)
    /\ activeChatId' = id
    /\ UNCHANGED <<allChats, localStorage, dbState, blobs, hasApiKey, apiChecked, aistudio,
                   keySelected, now, turns, budget, lastSave>>

\* App.tsx:64-69, called once with the messages a handler has built
onMessagesUpdate(messages, setItemThrows) ==
    /\ HasChat(allChats, activeChatId)
    /\ setValue(updateActiveChatMessages(allChats, activeChatId, messages), setItemThrows)
    /\ UNCHANGED <<activeChatId, dbState, blobs, hasApiKey, apiChecked, aistudio, keySelected,
                   now, turns, budget>>

\* Sidebar.tsx:153-161: e.newValue ? JSON.parse(e.newValue) : initialValue
handleStorageChange(newValue) ==
    /\ localStorage' = newValue
    /\ allChats' = IF newValue.present THEN JsonCopy(newValue.value) ELSE <<>>
    /\ lastSave' = [saved |-> FALSE, arg |-> <<>>, threw |-> FALSE]
    /\ UNCHANGED <<activeChatId, dbState, blobs, hasApiKey, apiChecked, aistudio, keySelected,
                   now, turns, budget>>

\* The message sequences the handlers pass to setMessages: with payloads in
\* memory, with a placeholder, and reloaded ones.
UploadedImage == Image(<<"upload", 0, 0>>, UploadBytes, "uploaded", PngMime)

BuiltMessages ==
    {LiveTurn, OldTurn, LiveTurn \o <<UserMessage(0, Typed, <<UploadedImage>>), LoadingMessage(0)>>}

\* What another tab writes under the key.
ForeignItems == {NoItem, Item(<<ChatSession(ChatId, "Camper", OldTurn, -4)>>)}

InitStore == Start({<<>>, LiveTurn}, 0)

NextStore ==
    \/ \E t \in Clock, x \in BOOLEAN : createNewChat(t, x) /\ UNCHANGED viewVars
    \/ \E k \in 1..MaxChats :
            k <= Len(allChats) /\ selectChat(allChats[k].id) /\ UNCHANGED viewVars
    \/ \E messages \in BuiltMessages, x \in BOOLEAN :
            onMessagesUpdate(messages, x) /\ UNCHANGED viewVars
    \/ \E item \in ForeignItems : handleStorageChange(item) /\ UNCHANGED viewVars

SpecStore == InitStore /\ [][NextStore]_vars

----------------------------------------------------------------------------
\* SpecSessions: the session list and the active session under creation,
\* selection, deletion, another tab's writes, and the effect of App that
\* selects or creates a session.

\* App.tsx:52-58
deleteChat(id, setItemThrows) ==
    LET P(c) == c.id # id
        remainingChats == [k \in 1..Cardinality({j \in DOMAIN allChats : P(allChats[j])}) |->
                             allChats[CHOOSE j \in DOMAIN allChats :
                                /\ P(allChats[j])
                                /\ Cardinality({n \in 1..j : P(allChats[n])}) = k]]
    IN  /\ HasChat(allChats, id)
        /\ setValue(remainingChats, setItemThrows)
        /\ activeChatId' = IF activeChatId = id
                           THEN IF Len(remainingChats) > 0 THEN remainingChats[1].id ELSE NoChatId
                           ELSE activeChatId
        /\ UNCHANGED <<dbState, blobs, hasApiKey, apiChecked, aistudio, keySelected, now, turns,
                       budget>>

\* App.tsx:71-78: the branches of the effect on [allChats, activeChatId]
selectsFirst == Len(allChats) > 0 /\ activeChatId = NoChatId
createsFirst == Len(allChats) = 0

AppEffect(t, setItemThrows) ==
    \/ /\ selectsFirst
       /\ activeChatId' = allChats[1].id
       /\ UNCHANGED <<allChats, localStorage, dbState, blobs, hasApiKey, apiChecked, aistudio,
                      keySelected, now, turns, budget, lastSave>>
    \/ /\ ~selectsFirst /\ createsFirst
       /\ createNewChat(t, setItemThrows)

\* What another tab writes under the key: the key removed, this tab's first
\* session retitled, that session deleted and another one created.
ForeignLists ==
    ForeignItems \cup {Item(<<ChatSession(<<"chat", -1, 0>>, NewTitle, <<>>, -1)>>)}

InitSessions == Start({<<>>, OldTurn}, 0)

NextSessions ==
    \/ \E t \in Clock, x \in BOOLEAN : AppEffect(t, x) /\ UNCHANGED viewVars
    \/ \E t \in Clock, x \in BOOLEAN : createNewChat(t, x) /\ UNCHANGED viewVars
    \/ \E k \in 1..MaxChats :
            k <= Len(allChats) /\ selectChat(allChats[k].id) /\ UNCHANGED viewVars
    \/ \E k \in 1..MaxChats, x \in BOOLEAN :
            k <= Len(allChats) /\ deleteChat(allChats[k].id, x) /\ UNCHANGED viewVars
    \/ \E item \in ForeignLists : handleStorageChange(item) /\ UNCHANGED viewVars

SpecSessions == InitSessions /\ [][NextSessions]_vars

----------------------------------------------------------------------------
\* SpecSwitch: turns in flight while the user creates, selects, deletes and
\* retitles sessions.  A handler that is suspended keeps running when its
\* ChatView is unmounted (App.tsx:91-97 keys the view by the session id), and
\* its setMessages is the updateActiveChatMessages of the render it was
\* created in.  The view mounted for another session finds the key again in
\* its mount effect, so hasApiKey stays as it is here.

\* App.tsx:60-62
updateChatTitle(id, newTitle, setItemThrows) ==
    /\ HasChat(allChats, id)
    /\ setValue([k \in DOMAIN allChats |->
                    IF allChats[k].id = id THEN [allChats[k] EXCEPT !.title = newTitle]
                    ELSE allChats[k]], setItemThrows)
    /\ UNCHANGED <<activeChatId, dbState, blobs, hasApiKey, apiChecked, aistudio, keySelected,
                   now, turns, budget>>

EditedTitle == "Camper"

\* some handler is suspended
InFlight == \E i \in Turns : turns[i].pc \notin {"idle", "done"}

InitSwitch == Start({LiveTurn}, MaxRace)

\* The session operations are taken while a turn is in flight, which is when
\* they meet a completion.
NextSwitch ==
    \/ \E t \in Clock : handleSubmit("red stripe", 0, "", FALSE, t, FALSE) /\ UNCHANGED viewVars
    \/ \E i \in Turns, reply \in RaceReplies, t \in Clock :
            GenReturn(i, reply, t, FALSE) /\ UNCHANGED viewVars
    \/ \E i \in Turns, t \in Clock : PersistStep(i, t, FALSE) /\ UNCHANGED viewVars
    \/ \E i \in Turns, reply \in SuggestReplies :
            SuggestReturn(i, reply, now, FALSE) /\ UNCHANGED viewVars
    \/ \E t \in Clock : AppEffect(t, FALSE) /\ UNCHANGED viewVars
    \/ \E t \in Clock : InFlight /\ createNewChat(t, FALSE) /\ UNCHANGED viewVars
    \/ \E k \in 1..MaxChats :
            InFlight /\ k <= Len(allChats) /\ selectChat(allChats[k].id) /\ UNCHANGED viewVars
    \/ \E k \in 1..MaxChats :
            InFlight /\ k <= Len(allChats) /\ deleteChat(allChats[k].id, FALSE)
                     /\ UNCHANGED viewVars
    \/ \E k \in 1..MaxChats :
            InFlight /\ k <= Len(allChats) /\ updateChatTitle(allChats[k].id, EditedTitle, FALSE)
                     /\ UNCHANGED viewVars

SpecSwitch == InitSwitch /\ [][NextSwitch]_vars

----------------------------------------------------------------------------
\* SpecBlob: services/db.ts alone, under a client that puts and gets records.
\* probe keeps the client's own account: the record it last put under each id,
\* the ids it has put a second, different record under, and what its last get
\* answered.

JpegMime == "image/jpeg"

ProbeRecords ==
    {StoredImage(id, mimeType, data) :
        id \in {<<"img", 0, 0>>, <<"upload", 0, 0>>},
        mimeType \in {PngMime, JpegMime},
        data \in {UploadBytes, GeneratedBytes}}

\* a client awaits saveImage(image)
Put(image) ==
    /\ IF saveImageRejects(dbState)
       THEN UNCHANGED <<blobs, probe>>
       ELSE /\ blobs' = saveImage(blobs, image)
            /\ probe' = [puts |-> {r \in probe.puts : r.id # image.id} \cup {image},
                         overwrote |-> probe.overwrote \cup
                                {r.id : r \in {x \in probe.puts : x.id = image.id /\ x # image}},
                         got |-> NoGot]
    /\ UNCHANGED <<allChats, localStorage, activeChatId, dbState, hasApiKey, apiChecked,
                   aistudio, keySelected, now, turns, budget, lastSave, resolver, matrix>>

\* a client awaits getImage(id)
Get(id) ==
    /\ probe' = [probe EXCEPT !.got =
                    IF getImageRejects(dbState)
                    THEN [id |-> id, outcome |-> "rejected", value |-> NoStored]
                    ELSE [id |-> id, outcome |-> "resolved", value |-> getImage(blobs, id)]]
    /\ UNCHANGED <<allChats, localStorage, activeChatId, dbState, blobs, hasApiKey, apiChecked,
                   aistudio, keySelected, now, turns, budget, lastSave, resolver, matrix>>

InitBlob == Start({<<>>}, 0)

NextBlob ==
    \/ initDB /\ UNCHANGED viewVars
    \/ \E image \in ProbeRecords : Put(image)
    \/ \E image \in ProbeRecords : Get(image.id)

SpecBlob == InitBlob /\ [][NextBlob]_vars

----------------------------------------------------------------------------
\* hooks/useImageLoader (src/unnamed/part_000), and SpecLoader: one mounted
\* resolver whose input reference changes while fetches are in flight.
\*
\* resolver.image is the prop of the last render (NoImage: undefined),
\* loadedImage and isLoading the hook's state (NoImage: null), effectDue
\* whether the effect of the last render has yet to run, fetches the pending
\* getImage promises with the isMounted flag of the effect that made each.
\* Kept beside them: renders (prop changes so far), gets (getImage calls of the
\* last effect), settled and stored (what wrote the state last, and the record
\* it fetched), discarded (completions that found isMounted false).

\* {...image, data: storedImage.data}
MergeDropsPayload(image, storedImage) == image

Merge(image, storedImage) == [image EXCEPT !.data = storedImage.data]

\* the first render of the hook: useState(null), useState(true)
Mounted(image) ==
    [Unmounted EXCEPT !.image = image, !.isLoading = TRUE, !.effectDue = TRUE]

\* lines 9-49: the cleanup of the previous effect, then the effect's body.
\* rejects: whether getImage finds the handle null when it is called.
runEffectAlwaysFetches(r, rejects) ==
    LET cleaned == [k \in DOMAIN r.fetches |-> [r.fetches[k] EXCEPT !.isMounted = FALSE]]
    IN  [r EXCEPT !.effectDue = FALSE, !.isLoading = TRUE, !.settled = "none",
                  !.stored = NoStored, !.gets = 1,
                  !.fetches = Append(cleaned, [image |-> r.image, isMounted |-> TRUE,
                                               rejected |-> rejects])]

runEffect(r, rejects) ==
    LET cleaned == [k \in DOMAIN r.fetches |-> [r.fetches[k] EXCEPT !.isMounted = FALSE]]
        ran == [r EXCEPT !.effectDue = FALSE, !.fetches = cleaned, !.gets = 0,
                         !.settled = "none", !.stored = NoStored]
    IN  IF r.image = NoImage
        THEN [ran EXCEPT !.isLoading = FALSE, !.loadedImage = NoImage, !.settled = "absent"]
        ELSE IF HasData(r.image)
        THEN [ran EXCEPT !.loadedImage = r.image, !.isLoading = FALSE, !.settled = "present"]
        ELSE [ran EXCEPT !.isLoading = TRUE, !.gets = 1,
                         !.fetches = Append(cleaned, [image |-> r.image, isMounted |-> TRUE,
                                                      rejected |-> rejects])]

\* lines 26-41: getImage of fetch k has settled.  result: the record, or
\* NoStored for undefined; faulted: the promise was rejected.
settleIgnoresMounted(r, k, result, faulted) ==
    LET f == r.fetches[k]
        rest == [j \in 1..(Len(r.fetches) - 1) |-> r.fetches[IF j < k THEN j ELSE j + 1]]
    IN  [r EXCEPT !.fetches = rest, !.isLoading = FALSE,
                  !.loadedImage = IF ~faulted /\ result # NoStored
                                  THEN Merge(f.image, result) ELSE f.image,
                  !.settled = IF faulted THEN "fault"
                              ELSE IF result # NoStored THEN "hit" ELSE "miss",
                  !.stored = IF faulted THEN NoStored ELSE result]

settlePropagates(r, k, result, faulted) ==
    LET f == r.fetches[k]
        rest == [j \in 1..(Len(r.fetches) - 1) |-> r.fetches[IF j < k THEN j ELSE j + 1]]
    IN  IF ~f.isMounted THEN [r EXCEPT !.fetches = rest, !.discarded = @ + 1]
        ELSE IF faulted \/ result = NoStored
        THEN [r EXCEPT !.fetches = rest,
                       !.settled = IF faulted THEN "fault" ELSE "miss"]
        ELSE [r EXCEPT !.fetches = rest, !.isLoading = FALSE,
                       !.loadedImage = Merge(f.image, result),
                       !.settled = "hit", !.stored = result]

settle(r, k, result, faulted) ==
    LET f == r.fetches[k]
        rest == [j \in 1..(Len(r.fetches) - 1) |-> r.fetches[IF j < k THEN j ELSE j + 1]]
    IN  IF ~f.isMounted THEN [r EXCEPT !.fetches = rest, !.discarded = @ + 1]
        ELSE IF faulted
        THEN [r EXCEPT !.fetches = rest, !.loadedImage = f.image, !.isLoading = FALSE,
                       !.settled = "fault"]
        ELSE IF result # NoStored
        THEN [r EXCEPT !.fetches = rest, !.loadedImage = Merge(f.image, result),
                       !.isLoading = FALSE, !.settled = "hit", !.stored = result]
        ELSE [r EXCEPT !.fetches = rest, !.loadedImage = f.image, !.isLoading = FALSE,
                       !.settled = "miss"]

\* the parent renders the hook with another reference
Render(image) ==
    /\ resolver.renders < MaxRenders
    /\ resolver' = [resolver EXCEPT !.image = image, !.effectDue = TRUE, !.renders = @ + 1]
    /\ UNCHANGED <<allChats, localStorage, activeChatId, dbState, blobs, hasApiKey, apiChecked,
                   aistudio, keySelected, now, turns, budget, lastSave, matrix, probe>>

\* React runs the effect of the last render
Effect ==
    /\ resolver.effectDue
    /\ resolver' = runEffect(resolver, getImageRejects(dbState))
    /\ UNCHANGED <<allChats, localStorage, activeChatId, dbState, blobs, hasApiKey, apiChecked,
                   aistudio, keySelected, now, turns, budget, lastSave, matrix, probe>>

\* a pending getImage settles: rejected at once when the handle was null,
\* otherwise with what the store holds, or with the request's error
FetchReturn(k, requestFails) ==
    /\ k \in DOMAIN resolver.fetches
    /\ LET f == resolver.fetches[k]
       IN  resolver' = settle(resolver, k, getImage(blobs, f.image.id),
                              f.rejected \/ requestFails)
    /\ UNCHANGED <<allChats, localStorage, activeChatId, dbState, blobs, hasApiKey, apiChecked,
                   aistudio, keySelected, now, turns, budget, lastSave, matrix, probe>>

\* The references a view hands to the hook: a reloaded image whose record is in
\* the store, a reloaded image whose record is not, an image of this run.
LostImage == Image(<<"img", -2, 0>>, NoData, "generated", PngMime)
OrphanImage == Image(<<"upload", -6, 0>>, NoData, "uploaded", JpegMime)
HeldImage == Image(<<"img", 0, 0>>, GeneratedBytes, "generated", PngMime)
References == {NoImage, LostImage, OrphanImage, HeldImage}

InitLoader ==
    /\ allChats = <<ChatSession(ChatId, NewTitle, OldTurn, -4)>>
    /\ localStorage = Item(JsonCopy(sanitizeForStorage(StorageKey, allChats).copy))
    /\ activeChatId = ChatId
    /\ dbState = "opening"
    /\ blobs = {StoredImage(LostImage.id, PngMime, GeneratedBytes),
                StoredImage(HeldImage.id, PngMime, GeneratedBytes)}
    /\ hasApiKey = FALSE
    /\ apiChecked = FALSE
    /\ aistudio = FALSE
    /\ keySelected = FALSE
    /\ now = 0
    /\ turns = [i \in Turns |-> IdleTurn]
    /\ budget = 0
    /\ lastSave = [saved |-> FALSE, arg |-> <<>>, threw |-> FALSE]
    /\ \E image \in References : resolver = Mounted(image)
    /\ matrix = ClosedMatrix
    /\ probe = NoProbe

NextLoader ==
    \/ initDB /\ UNCHANGED viewVars
    \/ \E image \in References : Render(image)
    \/ Effect
    \/ \E k \in 1..(MaxRenders + 1), requestFails \in BOOLEAN : FetchReturn(k, requestFails)

SpecLoader == InitLoader /\ [][NextLoader]_vars

\* Every effect React has scheduled runs, and every request of IndexedDB settles.
SpecLoaderLive ==
    /\ SpecLoader
    /\ WF_vars(Effect)
    /\ \A k \in 1..(MaxRenders + 1) : WF_vars(\E requestFails \in BOOLEAN : FetchReturn(k, requestFails))

----------------------------------------------------------------------------
\* components/DesignMatrix.tsx, and SpecMatrix: the matrix is opened on a
\* generated image whose data the resolver has, categories and custom options
\* arrive, the user selects, types and presses generate.
\*
\* matrix holds the component's state (isOpen is the parent's isMatrixOpen;
\* "" stands for a null error).  selections is the Record<string, string>: a
\* function from the keys present to their values.  Kept beside them:
\* submitted (the prompts handed to onGenerate), clicked (the last step was a
\* press of generate), opens (how often the matrix was opened), toggle (the
\* last step or the last two were handleSelect with this key and option, and
\* selections before the first of them), fetches (the calls of
\* generateDesignMatrixCategories in flight: the effect starts one whenever the
\* matrix opens, and nothing cancels the one an earlier opening started),
\* optionFetches (the names whose generateOptionsForCategory call is in flight),
\* customFor (the name the custom category had when the value under 'custom'
\* was chosen or typed).

MatrixErrorText == "Sorry, there was an error generating design options. Please try again."
OptionsErrorText == "Failed to get options."
PromptIntro == "Update the design with the following changes: "

\* What generateDesignMatrixCategories and generateOptionsForCategory answer
MatrixCategories ==
    <<[name |-> "Wheels", options |-> <<"chrome rims">>],
      [name |-> "Exterior Color", options |-> <<"red">>]>>
CategoryReplies ==
    {[kind |-> "fault", items |-> <<>>], [kind |-> "array", items |-> <<>>],
     [kind |-> "array", items |-> MatrixCategories]}
OptionReplies ==
    {[kind |-> "fault", items |-> <<>>], [kind |-> "array", items |-> <<>>],
     [kind |-> "array", items |-> <<"ladder">>]}

\* What the user types into an option field or the custom category field
TypedOptions == {"", "   ", "matte black"}
TypedNames == {"   ", "Roof Rack", "Awning"}

\* String(index), parseInt(key, 10), toLowerCase() on the strings above
StringOf(index) == IF index = 0 THEN "0" ELSE "1"
ParseInt(key) == IF key = "0" THEN 0 ELSE 1
ToLowerCase(s) ==
    CASE s = "Wheels" -> "wheels"
      [] s = "Exterior Color" -> "exterior color"
      [] s = "Roof Rack" -> "roof rack"
      [] s = "Awning" -> "awning"
      [] OTHER -> s

\* Object.entries(selections): integer keys ascending, then 'custom'
Entries(selections) ==
    LET keys == <<"0", "1", "custom">>
        F[n \in 0..3] ==
            IF n = 0 THEN <<>>
            ELSE IF keys[n] \in DOMAIN selections
                 THEN Append(F[n - 1], <<keys[n], selections[keys[n]]>>)
                 ELSE F[n - 1]
    IN  F[3]

\* lines 127-137, the map: the entries with the names of their categories
NamedOptions(selections, categories, customCategory) ==
    LET entries == Entries(selections)
    IN  [n \in DOMAIN entries |->
            LET key == entries[n][1]
                index == ParseInt(key)
            IN  [category |-> IF key = "custom" THEN customCategory.name
                              ELSE IF index + 1 \in DOMAIN categories
                                   THEN categories[index + 1].name ELSE "",
                 option |-> entries[n][2]]]

Keep(items, keep) ==
    LET F[n \in 0..Len(items)] ==
            IF n = 0 THEN <<>>
            ELSE IF keep[n] THEN Append(F[n - 1], items[n]) ELSE F[n - 1]
    IN  F[Len(items)]

selectedOptionsUnfiltered(selections, categories, customCategory) ==
    NamedOptions(selections, categories, customCategory)

\* lines 127-138: the map and the filter
selectedOptions(selections, categories, customCategory) ==
    LET items == NamedOptions(selections, categories, customCategory)
    IN  Keep(items, [n \in DOMAIN items |->
                        Trim(items[n].category) # "" /\ Trim(items[n].option) # ""])

\* lines 142-147: the text of the prompt, as its fragments in order
fullPrompt(options) ==
    LET F[n \in 0..Len(options)] ==
            IF n = 0 THEN <<PromptIntro>>
            ELSE F[n - 1] \o (IF n > 1 THEN <<", ">> ELSE <<>>)
                          \o <<ToLowerCase(options[n].category), " changed to '",
                               options[n].option, "'">>
    IN  F[Len(options)] \o <<".">>

\* line 151
hasSelections(selections) == \E key \in DOMAIN selections : Trim(selections[key]) # ""

\* the grid with the options and fields is rendered (line 206)
GridShown ==
    /\ matrix.isOpen /\ ~matrix.isMatrixLoading /\ matrix.matrixError = ""
    /\ Len(matrix.categories) > 0

MatrixStep ==
    UNCHANGED <<allChats, localStorage, activeChatId, dbState, blobs, hasApiKey, apiChecked,
                aistudio, keySelected, now, turns, budget, lastSave, resolver, probe>>

\* GalleryPanel.tsx:460-472, then fetchMatrixData up to its await (lines 57-67)
handleOpenMatrix ==
    /\ ~matrix.isOpen
    /\ matrix.opens < MaxOpens
    /\ matrix' = [matrix EXCEPT !.isOpen = TRUE, !.opens = @ + 1, !.clicked = FALSE, !.toggle = NoToggle,
                                !.isMatrixLoading = TRUE, !.matrixError = "",
                                !.fetches = @ + 1, !.customFor = "",
                                !.categories = <<>>, !.selections = <<>>,
                                !.customCategory = NoCustomCategory]
    /\ MatrixStep

\* lines 67-83: the categories arrive
CategoriesReturn(reply) ==
    /\ matrix.fetches > 0
    /\ matrix' = IF reply.kind = "array" /\ Len(reply.items) > 0
                 THEN [matrix EXCEPT !.categories = reply.items, !.isMatrixLoading = FALSE,
                                     !.fetches = @ - 1,
                                     !.clicked = FALSE, !.toggle = NoToggle]
                 ELSE [matrix EXCEPT !.matrixError = MatrixErrorText,
                                     !.isMatrixLoading = FALSE, !.fetches = @ - 1,
                                     !.clicked = FALSE, !.toggle = NoToggle]
    /\ MatrixStep

ToggleNeverDeselects(selections, categoryKey, option) ==
    [key \in DOMAIN selections \cup {categoryKey} |->
        IF key = categoryKey THEN option ELSE selections[key]]

\* lines 91-99
Toggle(selections, categoryKey, option) ==
    IF categoryKey \in DOMAIN selections /\ selections[categoryKey] = option
    THEN [key \in DOMAIN selections \ {categoryKey} |-> selections[key]]
    ELSE [key \in DOMAIN selections \cup {categoryKey} |->
            IF key = categoryKey THEN option ELSE selections[key]]

\* lines 101-103
SetOption(selections, categoryKey, value) ==
    [key \in DOMAIN selections \cup {categoryKey} |->
        IF key = categoryKey THEN value ELSE selections[key]]

\* the options a key offers as buttons (lines 209-214, 258-263)
OfferedOptions(categoryKey) ==
    IF categoryKey = "custom"
    THEN IF matrix.customCategory.isLoading \/ matrix.customCategory.error # ""
         THEN {} ELSE Range(matrix.customCategory.options)
    ELSE IF ParseInt(categoryKey) + 1 \in DOMAIN matrix.categories
         THEN Range(matrix.categories[ParseInt(categoryKey) + 1].options) ELSE {}

handleSelect(categoryKey, option) ==
    /\ GridShown
    /\ option \in OfferedOptions(categoryKey)
    /\ matrix' = [matrix EXCEPT !.selections = Toggle(@, categoryKey, option),
                                !.clicked = FALSE,
                                !.customFor = IF categoryKey = "custom"
                                              THEN matrix.customCategory.name ELSE @,
                                !.toggle = IF @.n = 1 /\ @.categoryKey = categoryKey
                                                      /\ @.option = option
                                           THEN [@ EXCEPT !.n = 2]
                                           ELSE [n |-> 1, categoryKey |-> categoryKey,
                                                 option |-> option,
                                                 before |-> matrix.selections]]
    /\ MatrixStep

\* the field of the custom column is disabled until the category has a name (line 285)
handleCustomInputChange(categoryKey, value) ==
    /\ GridShown
    /\ IF categoryKey = "custom" THEN matrix.customCategory.name # ""
       ELSE ParseInt(categoryKey) + 1 \in DOMAIN matrix.categories
    /\ matrix' = [matrix EXCEPT !.selections = SetOption(@, categoryKey, value),
                                !.customFor = IF categoryKey = "custom"
                                              THEN matrix.customCategory.name ELSE @,
                                !.clicked = FALSE, !.toggle = NoToggle]
    /\ MatrixStep

\* lines 105-111: Enter in the custom category field, up to the await
handleCustomCategoryNameKeyDown(value) ==
    /\ GridShown
    /\ ~matrix.customCategory.isLoading
    /\ Trim(value) # ""
    /\ matrix' = [matrix EXCEPT !.customCategory = [name |-> Trim(value), options |-> <<>>,
                                                    isLoading |-> TRUE, error |-> ""],
                                !.optionFetches = Append(@, Trim(value)),
                                !.clicked = FALSE, !.toggle = NoToggle]
    /\ MatrixStep

optionsSettledResetsMatrix(m, name, reply) ==
    [m EXCEPT !.customCategory = [name |-> name, options |-> <<>>, isLoading |-> FALSE,
                                  error |-> OptionsErrorText],
              !.matrixError = IF reply.kind = "array" /\ Len(reply.items) > 0
                              THEN @ ELSE MatrixErrorText,
              !.selections = IF reply.kind = "array" /\ Len(reply.items) > 0 THEN @ ELSE <<>>]

\* lines 112-121: the continuation of the call made for name
optionsSettled(m, name, reply) ==
    [m EXCEPT !.customCategory =
        IF reply.kind = "array" /\ Len(reply.items) > 0
        THEN [name |-> name, options |-> reply.items, isLoading |-> FALSE, error |-> ""]
        ELSE [name |-> name, options |-> <<>>, isLoading |-> FALSE,
              error |-> OptionsErrorText]]

\* lines 112-122: the options of a custom category arrive, or the call fails
OptionsReturn(k, reply) ==
    /\ k \in DOMAIN matrix.optionFetches
    /\ LET rest == [j \in 1..(Len(matrix.optionFetches) - 1) |->
                        matrix.optionFetches[IF j < k THEN j ELSE j + 1]]
           settled == optionsSettled(matrix, matrix.optionFetches[k], reply)
       IN  matrix' = [settled EXCEPT !.optionFetches = rest, !.clicked = FALSE,
                                     !.toggle = NoToggle]
    /\ MatrixStep

\* lines 126-149, behind the button of line 297; onGenerate is
\* handleMatrixGenerate (GalleryPanel.tsx:474-478), which hands the prompt to
\* handleSubmit and closes the matrix.
handleGenerateClick ==
    /\ matrix.isOpen
    /\ hasSelections(matrix.selections)
    /\ ~matrix.isMatrixLoading
    /\ LET options == selectedOptions(matrix.selections, matrix.categories, matrix.customCategory)
       IN  matrix' = IF Len(options) = 0
                     THEN [matrix EXCEPT !.toggle = NoToggle, !.clicked = TRUE]
                     ELSE [matrix EXCEPT !.toggle = NoToggle, !.clicked = TRUE, !.isOpen = FALSE,
                                         !.submitted = Append(@, fullPrompt(options))]
    /\ MatrixStep

\* the close button and the backdrop (onClose)
onClose ==
    /\ matrix.isOpen
    /\ matrix' = [matrix EXCEPT !.isOpen = FALSE, !.clicked = FALSE, !.toggle = NoToggle]
    /\ MatrixStep

InitMatrix ==
    /\ allChats = <<ChatSession(ChatId, NewTitle, LiveTurn, -4)>>
    /\ localStorage = Item(JsonCopy(sanitizeForStorage(StorageKey, allChats).copy))
    /\ activeChatId = ChatId
    /\ dbState = "ready"
    /\ blobs = {StoredImage(LostImage.id, PngMime, GeneratedBytes)}
    /\ hasApiKey = TRUE
    /\ apiChecked = TRUE
    /\ aistudio = FALSE
    /\ keySelected = FALSE
    /\ now = 0
    /\ turns = [i \in Turns |-> IdleTurn]
    /\ budget = 0
    /\ lastSave = [saved |-> FALSE, arg |-> <<>>, threw |-> FALSE]
    /\ resolver = Unmounted
    /\ matrix = ClosedMatrix
    /\ probe = NoProbe

NextMatrix ==
    \/ handleOpenMatrix
    \/ \E reply \in CategoryReplies : CategoriesReturn(reply)
    \/ \E categoryKey \in {StringOf(0), StringOf(1), "custom"},
          option \in {"chrome rims", "red", "ladder"} : handleSelect(categoryKey, option)
    \/ \E categoryKey \in {StringOf(1), "custom"}, value \in TypedOptions :
            handleCustomInputChange(categoryKey, value)
    \/ \E value \in TypedNames : handleCustomCategoryNameKeyDown(value)
    \/ \E k \in 1..MaxOpens, reply \in OptionReplies : OptionsReturn(k, reply)
    \/ handleGenerateClick
    \/ onClose

SpecMatrix == InitMatrix /\ [][NextMatrix]_vars

----------------------------------------------------------------------------
\* Properties of the turn orchestrator.

\* The turns handleSubmit has carried to the remote call.
Generating(turn) == turn.kind = "submit" /\ turn.placeholder

\* m is the most recent model message of messages
MostRecentModel(messages, k) ==
    /\ messages[k].role = "model"
    /\ \A j \in (k + 1)..Len(messages) : messages[j].role # "model"

GeneratedOf(m) == {k \in DOMAIN m.images : m.images[k].type = "generated"}

\* m is the most recent model message of messages that holds a generated image
MostRecentModelImage(messages, k) ==
    /\ messages[k].role = "model" /\ GeneratedOf(messages[k]) # {}
    /\ \A j \in (k + 1)..Len(messages) :
            ~(messages[j].role = "model" /\ GeneratedOf(messages[j]) # {})

FirstGenerated(m) == m.images[CHOOSE k \in GeneratedOf(m) : \A j \in GeneratedOf(m) : k <= j]

PayloadOf(image) == [data |-> image.data, mimeType |-> image.mimeType]
PayloadsOf(images) == [k \in DOMAIN images |-> PayloadOf(images[k])]

\* C1 as stated: a turn of handleSubmit that reaches generation edits the
\* generated image of the most recent prior model message when that message
\* has one (base first, then the uploads in order); otherwise edits the uploads
\* alone when there are any; otherwise generates from the text alone.
C1_MostRecentMessage ==
    \A i \in Turns :
        LET turn == turns[i]
            m0 == Messages0(turn)
            ups == PayloadsOf(turn.uploads)
        IN  Generating(turn) =>
                IF \E k \in DOMAIN m0 : MostRecentModel(m0, k) /\ GeneratedOf(m0[k]) # {}
                THEN \E k \in DOMAIN m0 :
                        /\ MostRecentModel(m0, k)
                        /\ turn.call = [fn |-> "edit", prompt |-> turn.text,
                                        images |-> <<PayloadOf(FirstGenerated(m0[k]))>> \o ups]
                ELSE IF Len(ups) > 0
                THEN turn.call = [fn |-> "edit", prompt |-> turn.text, images |-> ups]
                ELSE turn.call = [fn |-> "generate", prompt |-> turn.text, images |-> <<>>]

\* C1 amended: the base image is the first generated image of the most recent
\* model message that holds a generated image, whatever model messages follow
\* it; with no such message the uploads alone are edited, and with no uploads
\* either the text alone generates.  No prior generated image and no uploads:
\* never an edit.
C1_Precedence ==
    \A i \in Turns :
        LET turn == turns[i]
            m0 == Messages0(turn)
            ups == PayloadsOf(turn.uploads)
        IN  Generating(turn) =>
                /\ IF \E k \in DOMAIN m0 : MostRecentModelImage(m0, k)
                   THEN \E k \in DOMAIN m0 :
                        /\ MostRecentModelImage(m0, k)
                        /\ turn.call = [fn |-> "edit", prompt |-> turn.text,
                                        images |-> <<PayloadOf(FirstGenerated(m0[k]))>> \o ups]
                   ELSE IF Len(ups) > 0
                   THEN turn.call = [fn |-> "edit", prompt |-> turn.text, images |-> ups]
                   ELSE turn.call = [fn |-> "generate", prompt |-> turn.text, images |-> <<>>]
                /\ (Len(ups) = 0 /\ \A k \in DOMAIN m0 : ~(m0[k].role = "model" /\ GeneratedOf(m0[k]) # {}))
                        => turn.call.fn # "edit"

\* an edit whose base comes from an earlier model message than the most recent one
C1_Witness ==
    \E i \in Turns :
        LET turn == turns[i]
            m0 == Messages0(turn)
        IN  /\ Generating(turn)
            /\ turn.call.fn = "edit"
            /\ Len(turn.uploads) = 0
            /\ \E k \in DOMAIN m0 : MostRecentModel(m0, k) /\ GeneratedOf(m0[k]) = {}

\* C2: whatever the history and the submission, the first image handed to the
\* edit capability has its payload.
C2_BaseHasData ==
    \A i \in Turns :
        turns[i].call.fn = "edit" => turns[i].call.images[1].data # NoData

\* The history meets the premise of the missing-data guard.
LastImageLost(m0) ==
    \E k \in DOMAIN m0 :
        /\ MostRecentModel(m0, k)
        /\ GeneratedOf(m0[k]) # {}
        /\ \A j \in GeneratedOf(m0[k]) : m0[k].images[j].data = NoData

\* C3: when the most recent model message has generated images and none has
\* its payload, an accepted submission of text without files appends the user
\* message and the fixed re-upload request, no placeholder, and calls nothing.
C3_ReuploadRequest ==
    \A i \in Turns :
        LET turn == turns[i]
            m0 == Messages0(turn)
        IN  (turn.kind = "submit" /\ turn.nFiles = 0 /\ turn.text # <<>> /\ LastImageLost(m0)) =>
                /\ turn.pc = "done"
                /\ ~turn.placeholder
                /\ turn.nCalls = 0 /\ turn.call.fn = "none"
                /\ turn.log = <<>> /\ turn.suggested = "none"
                /\ Len(turn.after) = Len(m0) + 2
                /\ SubSeq(turn.after, 1, Len(m0)) = m0
                /\ LET u == turn.after[Len(m0) + 1]
                       a == turn.after[Len(m0) + 2]
                   IN  /\ u.role = "user" /\ u.text = turn.text /\ u.images = <<>>
                       /\ a.role = "model" /\ a.text = <<ReuploadText>> /\ a.images = <<>>
                       /\ ~u.isLoading /\ ~a.isLoading

C3_Witness ==
    \E i \in Turns :
        /\ turns[i].kind = "submit" /\ turns[i].pc = "done"
        /\ LastImageLost(Messages0(turns[i]))
        /\ turns[i].nFiles = 0
        /\ MessagesOf(allChats, turns[i].chatId) = turns[i].after

NoLoading(messages) == \A k \in DOMAIN messages : ~messages[k].isLoading

\* C4: a turn that ends with a response has persisted the returned images,
\* then asked for suggestions, then replaced the placeholder, in that order;
\* after the replacement the sequence is the one at submission, the user
\* message and the final response (images, text, suggestions), and no message
\* of it is flagged isLoading.
C4_OrderedAtomicReplace ==
    \A i \in Turns :
        LET turn == turns[i]
            m0 == Messages0(turn)
        IN  (turn.kind = "submit" /\ turn.pc = "done" /\ turn.outcome = "response") =>
                /\ turn.log = [k \in 1..Len(turn.response.images) |-> "persist"]
                                \o <<"suggest", "replace">>
                /\ turn.after = m0 \o <<turn.userMessage, turn.final>>
                /\ turn.final.images = turn.response.images
                /\ turn.final.text = turn.response.text
                /\ NoLoading(turn.after)

\* The remote generation or edit call of the turn threw: the catch block has
\* the fault and no response was returned.
CallThrew(turn) == turn.error # NoThrow /\ turn.response = NoMessage

LoadingIds(messages) == {messages[k].id : k \in {j \in DOMAIN messages : messages[j].isLoading}}

C6_OneCallPerTurn ==
    \A i \in Turns :
        /\ turns[i].placeholder => (turns[i].nCalls = 1 /\ turns[i].call.fn \in {"edit", "generate"})
        /\ ~turns[i].placeholder => (turns[i].nCalls = 0 /\ turns[i].call.fn = "none")

\* a turn whose call failed on the network and that has ended
C6_Witness ==
    \E i \in Turns :
        /\ turns[i].placeholder
        /\ turns[i].pc = "done"
        /\ turns[i].error = Thrown(TRUE, NetworkFault)

\* C7: a turn whose call returned images ends with the response in place of
\* the placeholder, whether or not the blob store took the images, and every
\* returned image has been handed to the blob store.
C7_PersistFailureSwallowed ==
    \A i \in Turns :
        LET turn == turns[i]
        IN  (turn.pc = "done" /\ turn.response # NoMessage) =>
                /\ turn.outcome = "response"
                /\ turn.final.images = turn.response.images
                /\ turn.saved = Len(turn.response.images)

\* C8: a turn whose suggestion request faulted has ended with a response, and
\* the response carries the four fixed suggestions.
C8_FallbackSuggestions ==
    \A i \in Turns :
        LET turn == turns[i]
        IN  turn.suggested = "fault" =>
                /\ turn.pc = "done" /\ turn.outcome = "response"
                /\ turn.final.suggestions =
                        <<"Change the color to matte black", "Add larger windows",
                          "Make it more luxurious inside", "Add a solar panel array">>
                /\ turn.final.images = turn.response.images
                /\ turn.final.text = turn.response.text
                /\ turn.after[Len(turn.after)] = turn.final

C8_Witness ==
    \E i \in Turns : turns[i].suggested = "fault" /\ Len(turns[i].final.suggestions) = 4

----------------------------------------------------------------------------
\* Properties of the session store.

ImagesIn(chats) ==
    UNION {Range(m.images) : m \in UNION {Range(c.messages) : c \in Range(chats)}}

\* a and b are the same session list but for the payloads of the images
SameButData(a, b) ==
    /\ Len(a) = Len(b)
    /\ \A c \in DOMAIN a :
        /\ a[c].id = b[c].id /\ a[c].title = b[c].title /\ a[c].createdAt = b[c].createdAt
        /\ Len(a[c].messages) = Len(b[c].messages)
        /\ \A m \in DOMAIN a[c].messages :
            LET x == a[c].messages[m]
                y == b[c].messages[m]
            IN  /\ x.id = y.id /\ x.role = y.role /\ x.text = y.text
                /\ x.isLoading = y.isLoading /\ x.suggestions = y.suggestions
                /\ Len(x.images) = Len(y.images)
                /\ \A k \in DOMAIN x.images :
                    /\ x.images[k].id = y.images[k].id
                    /\ x.images[k].type = y.images[k].type
                    /\ x.images[k].mimeType = y.images[k].mimeType

\* JSON.parse of the item, as the initializer of useLocalStorage reads it
Reloaded == JsonCopy(localStorage.value)

\* C9: the record under the key never holds an image with a payload, and after
\* a save whose write went through it equals the saved list in every other field.
C9_PersistedHasNoData ==
    /\ localStorage.present => \A image \in ImagesIn(Reloaded) : image.data = NoData
    /\ (lastSave.saved /\ ~lastSave.threw) =>
            localStorage.present /\ SameButData(Reloaded, lastSave.arg)

\* a save of a list that holds a payload has gone through
C9_Witness ==
    /\ lastSave.saved /\ ~lastSave.threw
    /\ \E image \in ImagesIn(lastSave.arg) : image.data # NoData

\* C10: after setValue the in-memory list is the very value that was saved,
\* payloads included, and only the written copy lacks them.
C10_SaveLeavesMemory ==
    lastSave.saved =>
        /\ allChats = lastSave.arg
        /\ \A image \in ImagesIn(lastSave.arg) : image \in ImagesIn(allChats)
        /\ ~lastSave.threw => \A image \in ImagesIn(Reloaded) : image.data = NoData

\* the in-memory list still holds a payload after a save, the record none
C10_Witness ==
    /\ lastSave.saved
    /\ \E image \in ImagesIn(allChats) : image.data # NoData
    /\ Len(localStorage.value) = Len(allChats)

----------------------------------------------------------------------------
\* Properties of the blob store.

\* C11: every image of every message of every session has a record with its
\* id in the blob store (every image of the model has had its payload: it was
\* uploaded or generated with one).
C11_EveryImageStored ==
    \A image \in ImagesIn(allChats) : \E r \in blobs : r.id = image.id

\* a turn has put an uploaded image and a generated image into the session
C11_Witness ==
    /\ \E image \in ImagesIn(allChats) : image.type = "uploaded" /\ image.id[2] >= 0
    /\ \E image \in ImagesIn(allChats) : image.type = "generated" /\ image.id[2] >= 0

\* C12: on an initialized store, a get answers the record last put under the
\* id, equal to it in id, mimeType and data: a second put under an id
\* replaces the first, and no record once put is ever missing.
C12_PutGetRoundTrip ==
    /\ \A r \in probe.puts :
        /\ \E x \in blobs : x.id = r.id
        /\ \A x \in blobs : x.id = r.id => x = r
    /\ \A r \in probe.puts :
        (probe.got.outcome = "resolved" /\ probe.got.id = r.id) =>
            /\ probe.got.value.id = r.id
            /\ probe.got.value.mimeType = r.mimeType
            /\ probe.got.value.data = r.data

\* a get has answered the second record put under an id
C12_Witness ==
    /\ probe.got.outcome = "resolved"
    /\ probe.got.id \in probe.overwrote
    /\ probe.got.value \in probe.puts

\* position of the first occurrence of an entry in a turn's log, 0 if none
LogIndex(log, entry) ==
    IF \E k \in DOMAIN log : log[k] = entry
    THEN CHOOSE k \in DOMAIN log : log[k] = entry /\ \A j \in 1..(k - 1) : log[j] # entry
    ELSE 0

\* C17: a turn whose call failed with the credential fault has unset the key
\* and called connectApiKey; its placeholder is replaced only after that call
\* has returned, which where window.aistudio exists is after the dialog has
\* closed; the replacement is the fixed invalid-key message, and the turn has
\* made its one remote call only.
C17_ReconnectBeforeError ==
    \A i \in Turns :
        LET turn == turns[i]
            log == turn.log
        IN  (turn.pc # "idle" /\ IsCredentialFault(turn.error)) =>
                /\ LogIndex(log, "unset") > 0
                /\ LogIndex(log, "connect") = LogIndex(log, "unset") + 1
                /\ turn.nCalls = 1
                /\ turn.pc \in {"reconnect", "done"}
                /\ turn.pc = "reconnect" => (aistudio /\ LogIndex(log, "replace") = 0
                                                      /\ turn.final = NoMessage)
                /\ turn.pc = "done" =>
                      /\ LogIndex(log, "replace") = Len(log)
                      /\ LogIndex(log, "connect") < LogIndex(log, "replace")
                      /\ aistudio => LogIndex(log, "selected") = LogIndex(log, "connect") + 1
                      /\ aistudio => LogIndex(log, "replace") = LogIndex(log, "selected") + 1
                      /\ turn.outcome = "error"
                      /\ turn.final.text = <<InvalidKeyText>>

C17_Witness ==
    \E i \in Turns :
        /\ turns[i].pc = "reconnect"
        /\ IsCredentialFault(turns[i].error)
        /\ ~hasApiKey
        /\ LET messages == MessagesOf(allChats, turns[i].chatId)
           IN  Len(messages) > 0 /\ messages[Len(messages)].isLoading

\* m is the most recent model message of messages that holds an image with data
MostRecentModelData(messages, k) ==
    /\ messages[k].role = "model"
    /\ \E j \in DOMAIN messages[k].images : messages[k].images[j].data # NoData
    /\ \A n \in (k + 1)..Len(messages) :
            ~(messages[n].role = "model"
              /\ \E j \in DOMAIN messages[n].images : messages[n].images[j].data # NoData)

FirstWithData(m) ==
    LET held == {j \in DOMAIN m.images : m.images[j].data # NoData}
    IN  m.images[CHOOSE j \in held : \A n \in held : j <= n]

\* C18: a suggestion click that passed the credential gate has called the edit
\* function with the suggestion and exactly one image, the first image with
\* data of the most recent model message that has one; when no model message
\* has an image with data it has ended at once, with no message appended, no
\* placeholder, no call, and the session as it was.
C18_ClickEditsLastImageWithData ==
    \A i \in Turns :
        LET turn == turns[i]
            m0 == Messages0(turn)
        IN  turn.kind = "click" =>
                IF \E k \in DOMAIN m0 : MostRecentModelData(m0, k)
                THEN \E k \in DOMAIN m0 :
                        /\ MostRecentModelData(m0, k)
                        /\ turn.placeholder /\ turn.nCalls = 1
                        /\ Len(turn.call.images) = 1
                        /\ turn.call = [fn |-> "edit", prompt |-> turn.text,
                                        images |-> <<PayloadOf(FirstWithData(m0[k]))>>]
                ELSE /\ turn.pc = "done" /\ turn.outcome = "noop"
                     /\ ~turn.placeholder
                     /\ turn.nCalls = 0 /\ turn.call.fn = "none"
                     /\ turn.log = <<>> /\ turn.final = NoMessage
                     /\ turn.after = m0

\* a click on a suggestion of a response of this run has reached the edit call
C18_Witness ==
    \E i \in Turns :
        /\ turns[i].kind = "click"
        /\ turns[i].call.fn = "edit"
        /\ Len(turns[i].call.images) = 1
        /\ turns[i].call.images[1].data # NoData

\* a click on a suggestion of a reloaded response, whose image has no data
C18_NoOpReached ==
    \E i \in Turns :
        /\ turns[i].kind = "click"
        /\ turns[i].outcome = "noop"
        /\ MessagesOf(allChats, turns[i].chatId) = Messages0(turns[i])

\* C19: a suggestion click ends as a submission does for the same outcome of
\* the edit call: with a response, after the returned images were persisted
\* and suggestions were requested and attached, also when no image was
\* returned; with the error message when the call threw.
C19_ClickSettlesAsSubmit ==
    \A i \in Turns :
        LET turn == turns[i]
            m0 == Messages0(turn)
        IN  (turn.kind = "click" /\ turn.pc = "done") =>
                /\ turn.outcome = "response" =>
                      /\ turn.log = [k \in 1..Len(turn.response.images) |-> "persist"]
                                      \o <<"suggest", "replace">>
                      /\ turn.suggested # "none"
                      /\ turn.final.images = turn.response.images
                      /\ turn.final.text = turn.response.text
                      /\ turn.after = m0 \o <<turn.userMessage, turn.final>>
                /\ CallThrew(turn) =>
                      /\ turn.outcome = "error"
                      /\ turn.final = ErrorMessage(turn.final.id[2], turn.error)
                      /\ turn.after = m0 \o <<turn.userMessage, turn.final>>

----------------------------------------------------------------------------
\* Properties of the image reference resolver.

\* the effect of the last render has run and nothing it started is pending
Resolved == ~resolver.effectDue /\ resolver.settled # "none"

\* C13: once the effect has run for a reference whose data is present, the
\* hook yields that very reference with isLoading false, and the effect made
\* no getImage call.
C13_PresentDataUnchanged ==
    (~resolver.effectDue /\ resolver.image # NoImage /\ HasData(resolver.image)) =>
        /\ resolver.loadedImage = resolver.image
        /\ ~resolver.isLoading
        /\ resolver.gets = 0
        /\ \A k \in DOMAIN resolver.fetches : ~resolver.fetches[k].isMounted

C13_Witness ==
    /\ ~resolver.effectDue
    /\ resolver.image = HeldImage
    /\ resolver.settled = "present"
    /\ resolver.renders > 0

\* C14: once the fetch for a reference without data has completed with the
\* record of its id, the hook yields the reference with the record's data, its
\* id, type and mimeType those of the reference, and isLoading false; a fetch
\* that completes without fault finds the record whenever the store holds it.
C14_HitMergesPayload ==
    (Resolved /\ resolver.settled \in {"hit", "miss"}
              /\ getImage(blobs, resolver.image.id) # NoStored) =>
        /\ resolver.settled = "hit"
        /\ ~HasData(resolver.image)
        /\ resolver.stored = getImage(blobs, resolver.image.id)
        /\ resolver.loadedImage.data = resolver.stored.data
        /\ resolver.loadedImage.data # NoData
        /\ resolver.loadedImage.id = resolver.image.id
        /\ resolver.loadedImage.type = resolver.image.type
        /\ resolver.loadedImage.mimeType = resolver.image.mimeType
        /\ ~resolver.isLoading

C14_Witness ==
    /\ Resolved
    /\ resolver.settled = "hit"
    /\ resolver.image = LostImage
    /\ resolver.loadedImage = [LostImage EXCEPT !.data = GeneratedBytes]

\* C15: once the fetch for a reference without data has completed with a miss
\* or a fault, the hook yields the reference itself with isLoading false.
C15_FallBack ==
    (Resolved /\ resolver.settled \in {"miss", "fault"}) =>
        /\ ~HasData(resolver.image)
        /\ resolver.loadedImage = resolver.image
        /\ ~resolver.isLoading

\* C15: a miss or a fault falls back to the reference, and the hook never
\* stays loading: isLoading true leads to isLoading false.
C15_FallsBackNeverStuck ==
    /\ []C15_FallBack
    /\ (resolver.isLoading ~> ~resolver.isLoading)

C15_Witness ==
    /\ Resolved
    /\ resolver.settled = "fault"
    /\ dbState = "opening"
    /\ resolver.image = LostImage
    /\ resolver.loadedImage = LostImage
    /\ ~resolver.isLoading

\* what the reference of the last render alone determines
DeterminedByNewest ==
    /\ ~resolver.isLoading
    /\ IF resolver.image = NoImage THEN resolver.loadedImage = NoImage
       ELSE IF HasData(resolver.image) THEN resolver.loadedImage = resolver.image
       ELSE \/ resolver.loadedImage = resolver.image
            \/ /\ getImage(blobs, resolver.image.id) # NoStored
               /\ resolver.loadedImage = Merge(resolver.image, getImage(blobs, resolver.image.id))

\* C16: once the effect of the last render has run and its own fetch, if any,
\* has completed, loadedImage and isLoading are those of the last reference,
\* whichever earlier fetches complete before or after.
C16_NewestReferenceWins == Resolved => DeterminedByNewest

C16_Witness ==
    /\ Resolved
    /\ resolver.discarded > 0
    /\ resolver.fetches = <<>>
    /\ resolver.settled \in {"hit", "miss", "fault"}
    /\ DeterminedByNewest

----------------------------------------------------------------------------
\* Properties of the design matrix.

\* the keys whose selected value is neither missing nor empty nor blank
Chosen == {key \in DOMAIN matrix.selections : matrix.selections[key] \notin {"", "   "}}

NameOf(key) ==
    IF key = "custom" THEN matrix.customCategory.name
    ELSE IF key = "0" THEN matrix.categories[1].name ELSE matrix.categories[2].name

ClauseOf(key) ==
    <<ToLowerCase(NameOf(key)), " changed to '", matrix.selections[key], "'">>

\* C20: a press of generate has handed onGenerate one prompt: the introduction,
\* one clause "<category name in lower case> changed to '<value>'" for each
\* category whose selected value is not empty (a value of blanks counts as
\* empty), the clauses separated by ", ", and a final "."; categories without
\* such a value have no clause.  While no category has such a value, generate
\* is disabled and nothing is submitted.
C20_CompiledPrompt ==
    /\ Len(matrix.submitted) <= matrix.opens
    /\ Chosen = {} => ~hasSelections(matrix.selections) /\ ~matrix.clicked
    /\ matrix.clicked =>
        LET n == Cardinality(Chosen)
            prompt == matrix.submitted[Len(matrix.submitted)]
        IN  /\ ~matrix.isOpen
            /\ Len(matrix.submitted) > 0
            /\ Len(prompt) = 5 * n + 1
            /\ prompt[1] = "Update the design with the following changes: "
            /\ prompt[Len(prompt)] = "."
            /\ \A i \in 1..(n - 1) : prompt[5 * i + 1] = ", "
            /\ \A key \in Chosen :
                    \E i \in 1..n : SubSeq(prompt, 5 * i - 3, 5 * i) = ClauseOf(key)

\* generate pressed with an option chosen, a field left blank and a value typed
\* under a custom category
C20_Witness ==
    /\ matrix.clicked
    /\ DOMAIN matrix.selections = {"0", "1", "custom"}
    /\ matrix.selections["1"] = "   "
    /\ matrix.submitted[Len(matrix.submitted)] =
            <<"Update the design with the following changes: ",
              "wheels", " changed to '", "chrome rims", "'", ", ",
              "roof rack", " changed to '", "matte black", "'", ".">>

\* C21 as stated: two successive handleSelect calls with the same category and
\* option leave selections as they were before the first, whatever they were.
C21_ToggleTwiceRestores == matrix.toggle.n = 2 => matrix.selections = matrix.toggle.before

\* C21 amended: two successive handleSelect calls with the same category and
\* option leave selections as they were when the category had no value or had
\* that option.  When it had another value, chosen or typed, that value is
\* gone: the category ends without a value.  The other categories keep theirs.
C21_ToggleTwice ==
    matrix.toggle.n = 2 =>
        LET before == matrix.toggle.before
            categoryKey == matrix.toggle.categoryKey
        IN  IF categoryKey \notin DOMAIN before \/ before[categoryKey] = matrix.toggle.option
            THEN matrix.selections = before
            ELSE /\ DOMAIN matrix.selections = DOMAIN before \ {categoryKey}
                 /\ \A key \in DOMAIN matrix.selections : matrix.selections[key] = before[key]

\* an option toggled on and off in a category that held a typed value
C21_Witness ==
    /\ matrix.toggle.n = 2
    /\ matrix.toggle.categoryKey \in DOMAIN matrix.toggle.before
    /\ matrix.toggle.before[matrix.toggle.categoryKey] = "matte black"
    /\ matrix.toggle.categoryKey \notin DOMAIN matrix.selections

\* generate is enabled and a press of it would submit a prompt
CanSubmit ==
    /\ matrix.isOpen /\ hasSelections(matrix.selections) /\ ~matrix.isMatrixLoading
    /\ Len(selectedOptions(matrix.selections, matrix.categories, matrix.customCategory)) > 0

\* C22: while the matrix shows the error of a failed or empty category
\* request, no option button or field is offered, a press of generate submits
\* nothing, and no press of generate has just submitted a prompt.
C22_ErrorStateBlocks ==
    matrix.matrixError # "" =>
        /\ ~GridShown
        /\ \A categoryKey \in {"0", "1", "custom"} : OfferedOptions(categoryKey) = {} \/ ~GridShown
        /\ ~CanSubmit
        /\ ~matrix.clicked

\* the selections of the generated categories
GeneratedSelections(selections) ==
    [key \in DOMAIN selections \ {"custom"} |-> selections[key]]

\* C23: a step in which an options request ends with a fault or without
\* options sets the error of the custom category and changes neither the
\* generated categories, nor the selections, nor the error or the loading
\* state of the matrix.
C23_OptionsFaultIsLocal ==
    [][(Len(matrix'.optionFetches) < Len(matrix.optionFetches)
            /\ matrix'.customCategory.error # "") =>
        /\ matrix'.customCategory.error = OptionsErrorText
        /\ matrix'.customCategory.options = <<>>
        /\ ~matrix'.customCategory.isLoading
        /\ matrix'.categories = matrix.categories
        /\ GeneratedSelections(matrix'.selections) = GeneratedSelections(matrix.selections)
        /\ matrix'.selections = matrix.selections
        /\ matrix'.matrixError = matrix.matrixError
        /\ matrix'.isMatrixLoading = matrix.isMatrixLoading
        /\ matrix'.isOpen = matrix.isOpen
        /\ matrix'.submitted = matrix.submitted]_vars

\* the options request failed while a generated category holds a selection
C23_Witness ==
    /\ matrix.customCategory.error = OptionsErrorText
    /\ matrix.customCategory.name = "Roof Rack"
    /\ "0" \in DOMAIN matrix.selections
    /\ matrix.selections["0"] = "chrome rims"
    /\ matrix.matrixError = ""
    /\ Len(matrix.categories) = 2
    /\ GridShown

\* C30: when a press of generate has compiled the value held under 'custom',
\* the clause names the custom category the user chose or typed that value
\* under.
C30_ValueUnderItsCategory ==
    (matrix.clicked /\ "custom" \in Chosen) =>
        LET prompt == matrix.submitted[Len(matrix.submitted)]
        IN  /\ matrix.customCategory.name = matrix.customFor
            /\ \E i \in 1..Len(prompt) :
                    /\ prompt[i] = ToLowerCase(matrix.customFor)
                    /\ i + 2 <= Len(prompt)
                    /\ prompt[i + 2] = matrix.selections["custom"]

----------------------------------------------------------------------------
\* Properties of the session list.

\* C24: whenever the effect of App has nothing left to do, the active id is
\* the id of a session in the list.
C24_OneActiveSession ==
    (~selectsFirst /\ ~createsFirst) => HasChat(allChats, activeChatId)

----------------------------------------------------------------------------
\* Properties of turns that overlap with one another or with session changes.

\* the ids of the images a turn has created: its uploads and the images of
\* the response it was given
CreatedIds(turn) ==
    {image.id : image \in Range(turn.uploads) \cup Range(turn.response.images)}

\* C25: no two turns have created images with the same id, and no turn has
\* created an image with the id of an image the session held before.
C25_UniqueImageIds ==
    \A i \in Turns :
        /\ \A j \in Turns \ {i} : CreatedIds(turns[i]) \cap CreatedIds(turns[j]) = {}
        /\ CreatedIds(turns[i]) \cap {image.id : image \in ImagesIn(turns[i].chats0)} = {}

\* The second submission was made before the first one's placeholder was
\* replaced: its closure holds the session with that placeholder.
Overlapping(i, j) ==
    /\ i # j
    /\ turns[i].placeholder /\ turns[j].placeholder
    /\ turns[i].chatId = turns[j].chatId
    /\ LoadingMessage(turns[i].userMessage.id[2]) \in Range(Messages0(turns[j]))

\* C27: when two submissions in one session overlap and both turns have
\* resolved, the session has no message flagged isLoading and holds both
\* user messages and both final responses.
C27_BothTurnsKept ==
    \A i \in Turns, j \in Turns :
        (Overlapping(i, j) /\ turns[i].pc = "done" /\ turns[j].pc = "done") =>
            LET messages == MessagesOf(allChats, turns[i].chatId)
            IN  /\ NoLoading(messages)
                /\ {turns[i].userMessage, turns[j].userMessage} \subseteq Range(messages)
                /\ {turns[i].final, turns[j].final} \subseteq Range(messages)

\* the step in which turn i replaces its placeholder
Completes(i) ==
    /\ turns[i].pc \in {"gen", "persist", "suggest", "reconnect"}
    /\ turns'[i].pc = "done"

\* a session list apart from the messages of session id
Others(chats, id) ==
    [k \in DOMAIN chats |->
        IF chats[k].id = id THEN [chats[k] EXCEPT !.messages = <<>>] ELSE chats[k]]

\* C26: the step in which a turn completes changes nothing but the messages
\* of the session it was submitted in: the sessions of the list, their order
\* and titles, and the messages of every other session are after the step
\* what they were before it, in memory and in localStorage.
C26_CompletionFrame ==
    [][\A i \in Turns :
          Completes(i) =>
              /\ Others(allChats', turns[i].chatId) = Others(allChats, turns[i].chatId)
              /\ Others(localStorage'.value, turns[i].chatId)
                    = Others(localStorage.value, turns[i].chatId)]_vars

\* The final message of turn i is told apart from those of the other turns
\* (two messages built in the same millisecond from equal replies are equal).
OwnFinal(i) == \A j \in Turns \ {i} : turns'[j].final # turns'[i].final

\* C28: the step in which a turn completes puts the turn's final message at
\* the end of the session the turn was submitted in, and into no other
\* session, whichever session is active at that step.
C28_WrittenToOwnSession ==
    [][\A i \in Turns :
          (Completes(i) /\ OwnFinal(i)) =>
              LET id == turns[i].chatId
                  final == turns'[i].final
                  messages == MessagesOf(allChats', id)
              IN  /\ HasChat(allChats', id)
                  /\ messages[Len(messages)] = final
                  /\ \A k \in DOMAIN allChats' :
                        allChats'[k].id # id => final \notin Range(allChats'[k].messages)]_vars

\* a turn has completed while another session was the active one, and the
\* session it was submitted in ends with its final message
C28_Witness ==
    \E i \in Turns :
        /\ turns[i].pc = "done"
        /\ \A j \in Turns \ {i} : turns[j].final # turns[i].final
        /\ activeChatId # turns[i].chatId
        /\ HasChat(allChats, activeChatId)
        /\ turns[i].after # <<>>
        /\ turns[i].after[Len(turns[i].after)] = turns[i].final
        /\ MessagesOf(allChats, turns[i].chatId) = turns[i].after

----------------------------------------------------------------------------
\* Properties of the credential gate after a failed turn

\* lines 521-542 and 229-234: with hasApiKey the text field and the submit
\* button are offered; without it the view offers the button of connectApiKey
\* and the gate of handleSubmit awaits connectApiKey, and either leads on only
\* where window.aistudio exists (the user picking a key in its dialog).
AcceptsSubmission == Gate(TRUE).pass

\* C29: after a failed turn, whatever the fault and whether or not
\* window.aistudio exists, the session view accepts a further submission.
C29_ResubmitAfterFailure ==
    \A i \in Turns :
        (turns[i].pc = "done" /\ turns[i].outcome = "error") => AcceptsSubmission

====
